---- MODULE Spec2Model ----
(***************************************************************************)
(* Model of ai_processor.py: main() reads one JSON request from stdin,     *)
(* validates it, routes it to one of three provider handlers and prints    *)
(* the handler's result string.                                            *)
(*                                                                         *)
(* Text is modelled as a sequence of tokens: a literal of the source is    *)
(* one token, a character of input data is one single-character token.     *)
(* f-string formatting and += are sequence concatenation.                  *)
(*                                                                         *)
(* Modelling assumptions: stdin decodes and stdout accepts every write;    *)
(* the vendor libraries raise subclasses of Exception only.                *)
(***************************************************************************)
EXTENDS Integers, Sequences, FiniteSets, TLC

VARIABLES text, doc, pc, input_data, payload, idx, provider, result,
          result_text, chunks, stdout, exc, exitCode, handlerLog,
          vendorCalls, vendor_out

vars == <<text, doc, pc, input_data, payload, idx, provider, result,
          result_text, chunks, stdout, exc, exitCode, handlerLog,
          vendorCalls, vendor_out>>

(* Longest vendor stream the Gemini handler is fed. *)
MaxChunks == 3

-----------------------------------------------------------------------------
(* JSON values as Python objects *)

Absent == [t |-> "absent", s |-> <<>>, n |-> 0]
None == [t |-> "null", s |-> <<>>, n |-> 0]
StrV(s) == [t |-> "str", s |-> s, n |-> 0]
NumV(n) == [t |-> "num", s |-> <<>>, n |-> n]
BoolV(n) == [t |-> "bool", s |-> <<>>, n |-> n]
ListV(n) == [t |-> "list", s |-> <<>>, n |-> n]

Keys == {"provider", "api_key", "model", "prompt", "content"}

NoFields == [k \in Keys |-> Absent]

(* Tokens of the stdin text: the serialisation of doc, and text that is not JSON. *)
DocTok == "<doc>"
JunkTok == "<junk>"

Whitespace == {" ", "\n", "\t"}

(* str.strip(): drop leading and trailing whitespace. *)
RECURSIVE LStrip(_)
LStrip(s) ==
  IF s = <<>> THEN <<>>
  ELSE IF Head(s) \in Whitespace THEN LStrip(Tail(s)) ELSE s

RECURSIVE RStrip(_)
RStrip(s) ==
  IF s = <<>> THEN <<>>
  ELSE IF s[Len(s)] \in Whitespace THEN RStrip(SubSeq(s, 1, Len(s) - 1)) ELSE s

Strip(s) == RStrip(LStrip(s))

(* str.lower() on the characters the inputs use. *)
LowerChar(c) ==
  CASE c = "A" -> "a"
    [] c = "C" -> "c"
    [] c = "D" -> "d"
    [] c = "E" -> "e"
    [] c = "G" -> "g"
    [] c = "I" -> "i"
    [] c = "L" -> "l"
    [] c = "M" -> "m"
    [] c = "N" -> "n"
    [] c = "O" -> "o"
    [] c = "P" -> "p"
    [] c = "U" -> "u"
    [] OTHER -> c

Lower_identity(s) == s

Lower(s) == [i \in DOMAIN s |-> LowerChar(s[i])]

(* Python truthiness of a value; dict.get() yields None for an absent key. *)
Truthy_present(v) == v.t # "absent"

Truthy(v) ==
  CASE v.t = "absent" -> FALSE
    [] v.t = "null" -> FALSE
    [] v.t = "str" -> Len(v.s) > 0
    [] OTHER -> v.n # 0

(* The type name Python reports in an AttributeError. *)
PyTypeName(t) ==
  CASE t = "null" -> "NoneType"
    [] t = "num" -> "int"
    [] OTHER -> t

AttributeError(t, attr) ==
  [type |-> "AttributeError",
   msg |-> <<"'", PyTypeName(t), "' object has no attribute '", attr, "'">>,
   code |-> 0]

SystemExit(c) == [type |-> "SystemExit", msg |-> <<>>, code |-> c]

NoExc == [type |-> "none", msg |-> <<>>, code |-> 0]

(* json.loads on the stripped text: one document and nothing else. *)
JSONDecodeError(s) ==
  [type |-> "JSONDecodeError",
   msg |-> IF Head(s) = DocTok
           THEN <<"Extra data: line 1 column 2 (char 1)">>
           ELSE <<"Expecting value: line 1 column 1 (char 0)">>,
   code |-> 0]

required_fields_short == <<"provider", "api_key", "prompt">>

required_fields_swapped == <<"api_key", "provider", "prompt", "content">>

required_fields == <<"provider", "api_key", "prompt", "content">>

(* except Exception: SystemExit derives from BaseException only. *)
IsException_all(type) == TRUE

IsException(type) == type \in {"JSONDecodeError", "AttributeError", "KeyError", "ImportError", "APIError"}

-----------------------------------------------------------------------------
(* Inputs *)

Texts ==
  { <<>>, <<" ">>, <<"\n", " ">>,
    <<DocTok>>, <<" ", DocTok, "\n">>,
    <<JunkTok>>, <<DocTok, JunkTok>> }

ProviderValues ==
  { Absent, None, StrV(<<>>), NumV(0), NumV(7), ListV(1), BoolV(1),
    StrV(<<"o","p","e","n","a","i">>), StrV(<<"O","p","e","n","A","I">>),
    StrV(<<"O","P","E","N","A","I">>),
    StrV(<<"c","l","a","u","d","e">>), StrV(<<"C","l","a","u","d","e">>),
    StrV(<<"g","e","m","i","n","i">>), StrV(<<"G","E","M","I","N","I">>),
    StrV(<<"m","i","s","t","r","a","l">>), StrV(<<"M","i","s","t","r","a","l">>) }

TextValues(c) == { Absent, StrV(<<>>), StrV(<<c>>), NumV(5) }

ModelValues == { Absent, None, StrV(<<>>), StrV(<<"m","1">>), NumV(3) }

Objects ==
  { [t |-> "obj",
     f |-> [provider |-> p, api_key |-> k, model |-> m, prompt |-> q, content |-> c]] :
      p \in ProviderValues, k \in TextValues("k"), m \in ModelValues,
      q \in TextValues("q"), c \in TextValues("c") }

NonObjects == { [t |-> ty, f |-> NoFields] : ty \in {"null", "bool", "num", "str", "list"} }

Docs == Objects \cup NonObjects

NoDoc == [t |-> "null", f |-> NoFields]

NoOut == [kind |-> "none", exc |-> NoExc, text |-> <<>>]

Init ==
  /\ text \in Texts
  /\ doc \in Docs
  /\ (DocTok \in {text[i] : i \in DOMAIN text} \/ doc = NoDoc)
  /\ pc = "start"
  /\ input_data = <<>>
  /\ payload = NoDoc
  /\ idx = 1
  /\ provider = <<>>
  /\ result = <<>>
  /\ result_text = <<>>
  /\ chunks = <<>>
  /\ stdout = <<>>
  /\ exc = NoExc
  /\ exitCode = -1
  /\ handlerLog = <<>>
  /\ vendorCalls = <<>>
  /\ vendor_out = NoOut

-----------------------------------------------------------------------------
(* main(): lines 124-127 *)
ReadStdin ==
  /\ pc = "start"
  /\ input_data' = Strip(text)
  /\ IF Strip(text) = <<>>
     THEN /\ stdout' = Append(stdout, <<"Error: No input data received">>)
          /\ exc' = SystemExit(1)
          /\ pc' = "except"
     ELSE /\ pc' = "parse"
          /\ UNCHANGED <<stdout, exc>>
  /\ UNCHANGED <<text, doc, payload, idx, provider, result, result_text, chunks,
                 exitCode, handlerLog, vendorCalls, vendor_out>>

(* main(): line 129 *)
ParseJson ==
  /\ pc = "parse"
  /\ IF input_data = <<DocTok>>
     THEN /\ payload' = doc
          /\ pc' = "validate"
          /\ exc' = exc
     ELSE /\ exc' = JSONDecodeError(input_data)
          /\ pc' = "except"
          /\ payload' = payload
  /\ UNCHANGED <<text, doc, input_data, idx, provider, result, result_text, chunks,
                 stdout, exitCode, handlerLog, vendorCalls, vendor_out>>

(* main(): lines 132-136, one iteration of the loop *)
ValidateField ==
  /\ pc = "validate"
  /\ LET field == required_fields[idx] IN
     IF payload.t # "obj"
     THEN /\ exc' = AttributeError(payload.t, "get")
          /\ pc' = "except"
          /\ UNCHANGED <<stdout, idx>>
     ELSE IF ~Truthy(payload.f[field])
     THEN /\ stdout' = Append(stdout, <<"Error: Missing required field: ", field>>)
          /\ exc' = SystemExit(1)
          /\ pc' = "except"
          /\ idx' = idx
     ELSE /\ idx' = idx + 1
          /\ pc' = IF idx = Len(required_fields) THEN "route" ELSE "validate"
          /\ UNCHANGED <<stdout, exc>>
  /\ UNCHANGED <<text, doc, input_data, payload, provider, result, result_text, chunks,
                 exitCode, handlerLog, vendorCalls, vendor_out>>

-----------------------------------------------------------------------------
(* Provider handlers *)

Handlers == {"process_openai", "process_claude", "process_gemini"}

(* main(): lines 141-148, the branch taken for a lower-cased provider *)
Dispatch_fallback(p) ==
  CASE p = <<"o","p","e","n","a","i">> -> "process_openai"
    [] p = <<"c","l","a","u","d","e">> -> "process_claude"
    [] p = <<"g","e","m","i","n","i">> -> "process_gemini"
    [] OTHER -> "process_openai"

Dispatch(p) ==
  CASE p = <<"o","p","e","n","a","i">> -> "process_openai"
    [] p = <<"c","l","a","u","d","e">> -> "process_claude"
    [] p = <<"g","e","m","i","n","i">> -> "process_gemini"
    [] OTHER -> "unknown"

DefaultModel(h) ==
  CASE h = "process_openai" -> "gpt-4o-mini"
    [] h = "process_claude" -> "claude-3-5-haiku-20241022"
    [] h = "process_gemini" -> "gemini-2.5-flash-preview-05-20"

(* payload["model"] or <default> *)
SelectModel(v, h) == IF Truthy(v) THEN v ELSE StrV(<<DefaultModel(h)>>)

(* str() of a value inside an f-string *)
ToStr(v) ==
  CASE v.t = "str" -> v.s
    [] v.t = "null" -> <<"None">>
    [] v.t = "num" -> <<"<int>">>
    [] v.t = "bool" -> <<IF v.n = 0 THEN "False" ELSE "True">>
    [] OTHER -> <<"[...]">>

(* f"{payload['prompt']}\n\nContent to analyze:\n{payload['content']}" *)
InputText(p) == ToStr(p.f["prompt"]) \o <<"\n\nContent to analyze:\n">> \o ToStr(p.f["content"])

ImportErrorMsg(h) ==
  CASE h = "process_openai" -> <<"Error: OpenAI library not installed. Run: pip install openai">>
    [] h = "process_claude" -> <<"Error: Anthropic library not installed. Run: pip install anthropic">>
    [] h = "process_gemini" -> <<"Error: Google GenAI library not installed. Run: pip install google-genai">>

ErrorPrefix(h) ==
  CASE h = "process_openai" -> "OpenAI Error: "
    [] h = "process_claude" -> "Claude Error: "
    [] h = "process_gemini" -> "Gemini Error: "

(* The handlers' except clauses: ImportError first, then Exception. *)
HandlerCatch_swapped(h, e) == <<ErrorPrefix(h)>> \o e.msg

HandlerCatch(h, e) ==
  IF e.type = "ImportError" THEN ImportErrorMsg(h) ELSE <<ErrorPrefix(h)>> \o e.msg

ImportError(h) ==
  [type |-> "ImportError",
   msg |-> <<"No module named '",
             CASE h = "process_openai" -> "openai"
               [] h = "process_claude" -> "anthropic"
               [] h = "process_gemini" -> "google",
             "'">>,
   code |-> 0]

KeyError(k) == [type |-> "KeyError", msg |-> <<"'", k, "'">>, code |-> 0]

APIError(m) == [type |-> "APIError", msg |-> <<m>>, code |-> 0]

(* What the vendor side does during one handler run; vendor_out records what
   the handler's try block ran into. *)
ApiMessages == {"401 invalid api key", "Connection error."}

Responses == { <<"o","k">>, <<" ","o","k","\n">>, <<"a"," ","b">>, <<" ">>, <<>> }

VendorOutcomes ==
  { [kind |-> "no_lib", exc |-> NoExc, text |-> <<>>] }
  \cup { [kind |-> k, exc |-> APIError(m), text |-> <<>>] :
           k \in {"client_error", "call_error"}, m \in ApiMessages }
  \cup { [kind |-> "bad_response", exc |-> AttributeError("null", "strip"), text |-> <<>>] }
  \cup { [kind |-> "ok", exc |-> NoExc, text |-> r] : r \in Responses }

(* payload["model"] with the key absent: what the try block ran into. *)
KeyErrorOut(k) == [kind |-> "key_error", exc |-> KeyError(k), text |-> <<>>]

(* One request sent to a vendor API. *)
Request(h, p) == [handler |-> h, model |-> SelectModel(p.f["model"], h), input_text |-> InputText(p)]

(* client...create(...) / generate_content_stream(...): the call is issued once. *)
VendorCall_retry(calls, req, out) ==
  IF out.kind = "call_error" THEN Append(Append(calls, req), req) ELSE Append(calls, req)

VendorCall(calls, req, out) == Append(calls, req)

(* main(): lines 138-148 *)
Route ==
  /\ pc = "route"
  /\ LET v == payload.f["provider"] IN
     IF v.t # "str"
     THEN /\ exc' = AttributeError(v.t, "lower")
          /\ pc' = "except"
          /\ UNCHANGED <<provider, result, handlerLog>>
     ELSE LET h == Dispatch(Lower(v.s)) IN
          /\ provider' = Lower(v.s)
          /\ exc' = exc
          /\ IF h \in Handlers
             THEN /\ handlerLog' = Append(handlerLog, h)
                  /\ pc' = h
                  /\ result' = result
             ELSE /\ result' = <<"Error: Unknown AI provider: ">> \o Lower(v.s)
                  /\ pc' = "print"
                  /\ handlerLog' = handlerLog
  /\ UNCHANGED <<text, doc, input_data, payload, idx, result_text, chunks,
                 stdout, exitCode, vendorCalls, vendor_out>>

(* Body shared by process_openai and process_claude: import, client, model,
   one create() call, extraction of the text, and the except clauses. *)
Handle(h, out) ==
  /\ IF out.kind = "no_lib"
     THEN /\ result' = HandlerCatch(h, ImportError(h))
          /\ vendorCalls' = vendorCalls
          /\ vendor_out' = out
     ELSE IF out.kind = "client_error"
     THEN /\ result' = HandlerCatch(h, out.exc)
          /\ vendorCalls' = vendorCalls
          /\ vendor_out' = out
     ELSE IF payload.f["model"] = Absent
     THEN /\ result' = HandlerCatch(h, KeyError("model"))
          /\ vendorCalls' = vendorCalls
          /\ vendor_out' = KeyErrorOut("model")
     ELSE /\ vendorCalls' = VendorCall(vendorCalls, Request(h, payload), out)
          /\ result' = IF out.kind = "ok" THEN Strip(out.text) ELSE HandlerCatch(h, out.exc)
          /\ vendor_out' = out
  /\ pc' = "print"
  /\ UNCHANGED <<text, doc, input_data, payload, idx, provider, result_text, chunks,
                 stdout, exc, exitCode, handlerLog>>

(* lines 18-43 *)
process_openai ==
  /\ pc = "process_openai"
  /\ \E out \in VendorOutcomes : Handle("process_openai", out)

(* lines 45-69 *)
process_claude ==
  /\ pc = "process_claude"
  /\ \E out \in VendorOutcomes : Handle("process_claude", out)

(* lines 71-109: up to the call that opens the stream *)
process_gemini ==
  /\ pc = "process_gemini"
  /\ \E out \in { o \in VendorOutcomes : o.kind \in {"no_lib", "client_error"} }
            \cup { [kind |-> "stream", exc |-> NoExc, text |-> <<>>] } :
       /\ IF out.kind = "no_lib"
          THEN /\ result' = HandlerCatch("process_gemini", ImportError("process_gemini"))
               /\ pc' = "print"
               /\ UNCHANGED <<vendorCalls, result_text>>
               /\ vendor_out' = out
          ELSE IF out.kind = "client_error"
          THEN /\ result' = HandlerCatch("process_gemini", out.exc)
               /\ pc' = "print"
               /\ UNCHANGED <<vendorCalls, result_text>>
               /\ vendor_out' = out
          ELSE IF payload.f["model"] = Absent
          THEN /\ result' = HandlerCatch("process_gemini", KeyError("model"))
               /\ pc' = "print"
               /\ UNCHANGED <<vendorCalls, result_text>>
               /\ vendor_out' = KeyErrorOut("model")
          ELSE /\ vendorCalls' = VendorCall(vendorCalls, Request("process_gemini", payload), out)
               /\ result_text' = <<>>
               /\ pc' = "gemini_stream"
               /\ result' = result
               /\ vendor_out' = out
  /\ UNCHANGED <<text, doc, input_data, payload, idx, provider, chunks,
                 stdout, exc, exitCode, handlerLog>>

(* chunk.text of a streamed chunk: None, empty or text *)
ChunkTexts == { None, StrV(<<>>), StrV(<<"a", " ">>), StrV(<<" ", "b">>), StrV(<<"\n">>) }

(* lines 110-111 *)
AddChunk_stripped(buf, c) == IF Truthy(c) THEN buf \o Strip(c.s) ELSE buf

AddChunk(buf, c) == IF Truthy(c) THEN buf \o c.s ELSE buf

(* lines 105-111: the stream yields one more chunk *)
GeminiChunk ==
  /\ pc = "gemini_stream"
  /\ Len(chunks) < MaxChunks
  /\ \E c \in ChunkTexts :
       /\ chunks' = Append(chunks, c)
       /\ result_text' = AddChunk(result_text, c)
  /\ UNCHANGED <<text, doc, pc, input_data, payload, idx, provider, result,
                 stdout, exc, exitCode, handlerLog, vendorCalls, vendor_out>>

(* line 113: the stream is exhausted *)
GeminiEnd ==
  /\ pc = "gemini_stream"
  /\ result' = Strip(result_text)
  /\ vendor_out' = [vendor_out EXCEPT !.kind = "ok"]
  /\ pc' = "print"
  /\ UNCHANGED <<text, doc, input_data, payload, idx, provider, result_text, chunks,
                 stdout, exc, exitCode, handlerLog, vendorCalls>>

(* lines 115-118: the stream raises while being consumed *)
GeminiRaise ==
  /\ pc = "gemini_stream"
  /\ \E m \in ApiMessages :
       /\ result' = HandlerCatch("process_gemini", APIError(m))
       /\ vendor_out' = [kind |-> "call_error", exc |-> APIError(m), text |-> <<>>]
  /\ pc' = "print"
  /\ UNCHANGED <<text, doc, input_data, payload, idx, provider, result_text, chunks,
                 stdout, exc, exitCode, handlerLog, vendorCalls>>

(* main(): line 151, then normal interpreter exit *)
PrintResult ==
  /\ pc = "print"
  /\ stdout' = Append(stdout, result)
  /\ exitCode' = 0
  /\ pc' = "exited"
  /\ UNCHANGED <<text, doc, input_data, payload, idx, provider, result, result_text, chunks,
                 exc, handlerLog, vendorCalls, vendor_out>>

(* main(): lines 153-158; an exception no clause matches leaves the process *)
MainExcept ==
  /\ pc = "except"
  /\ IF exc.type = "JSONDecodeError"
     THEN /\ stdout' = Append(stdout, <<"Error: Invalid JSON input: ">> \o exc.msg)
          /\ exitCode' = 1
     ELSE IF IsException(exc.type)
     THEN /\ stdout' = Append(stdout, <<"Error: ">> \o exc.msg)
          /\ exitCode' = 1
     ELSE /\ stdout' = stdout
          /\ exitCode' = exc.code
  /\ pc' = "exited"
  /\ UNCHANGED <<text, doc, input_data, payload, idx, provider, result, result_text, chunks,
                 exc, handlerLog, vendorCalls, vendor_out>>

Next ==
  \/ ReadStdin
  \/ ParseJson
  \/ ValidateField
  \/ Route
  \/ process_openai
  \/ process_claude
  \/ process_gemini
  \/ GeminiChunk
  \/ GeminiEnd
  \/ GeminiRaise
  \/ PrintResult
  \/ MainExcept

Spec == Init /\ [][Next]_vars

-----------------------------------------------------------------------------
(* Properties *)

Tokens(s) == {s[i] : i \in DOMAIN s}

(* The input stream holds one JSON document and whitespace only. *)
StreamParses == DocTok \in Tokens(text) /\ JunkTok \notin Tokens(text)

(* A field that is missing or falsy: absent, null, "", 0, false, []. *)
Missing(v) ==
  \/ v.t \in {"absent", "null"}
  \/ v.t = "str" /\ v.s = <<>>
  \/ v.t \in {"num", "bool", "list"} /\ v.n = 0

FieldOrder == <<"provider", "api_key", "prompt", "content">>

(* The input parsed as JSON and holds a truthy value for each required field. *)
Validated ==
  /\ StreamParses
  /\ doc.t = "obj"
  /\ \A i \in 1..4 : ~Missing(doc.f[FieldOrder[i]])

Exited == pc = "exited"

(* Fold a character to upper case, for case-insensitive comparison. *)
Fold(c) ==
  CASE c = "a" -> "A" [] c = "c" -> "C" [] c = "d" -> "D" [] c = "e" -> "E"
    [] c = "g" -> "G" [] c = "i" -> "I" [] c = "l" -> "L" [] c = "m" -> "M"
    [] c = "n" -> "N" [] c = "o" -> "O" [] c = "p" -> "P" [] c = "u" -> "U"
    [] OTHER -> c

SameIgnoringCase(s, u) == Len(s) = Len(u) /\ \A i \in DOMAIN s : Fold(s[i]) = Fold(u[i])

IsOpenai(s) == SameIgnoringCase(s, <<"O","P","E","N","A","I">>)
IsClaude(s) == SameIgnoringCase(s, <<"C","L","A","U","D","E">>)
IsGemini(s) == SameIgnoringCase(s, <<"G","E","M","I","N","I">>)

HandlerRan == handlerLog # <<>> /\ pc \in {"gemini_stream", "print", "exited"}

\* C1 (as stated): the exit code is non-zero exactly when the input is blank,
\* does not parse as JSON, or lacks a truthy value for a required field; every
\* other input, whatever the provider value, exits with code 0.
C1_ExitNonZeroIffInvalid ==
  Exited => ((exitCode # 0) <=> ~Validated)

\* C1 (amended): the exit code is non-zero exactly when the input is blank, does
\* not parse as JSON, lacks a truthy value for a required field (a document that
\* is no object lacks them all), or has a truthy provider that is not a string.
C1_ExitNonZeroIffInvalidOrProviderNotString ==
  Exited => ((exitCode # 0) <=> (~Validated \/ doc.f["provider"].t # "str"))

C1_Witness ==
  /\ Exited
  /\ Validated
  /\ doc.f["provider"] = NumV(7)
  /\ exitCode = 1

\* C2: with the model key absent or the model empty, the handler calls its
\* vendor with the documented default model; a non-empty model string is used
\* unchanged.
C2_DefaultModelSubstituted ==
  LET m == doc.f["model"]
      h == handlerLog[1]
      default == CASE h = "process_openai" -> "gpt-4o-mini"
                   [] h = "process_claude" -> "claude-3-5-haiku-20241022"
                   [] h = "process_gemini" -> "gemini-2.5-flash-preview-05-20"
  IN (HandlerRan /\ vendor_out.kind \notin {"no_lib", "client_error"}
        /\ (m.t = "absent" \/ m.t = "str"))
     => /\ Len(vendorCalls) = 1
        /\ vendorCalls[1].model = IF m.t = "str" /\ m.s # <<>> THEN m ELSE StrV(<<default>>)

\* C3: no handler is invoked and no vendor call is made unless the input parsed
\* as JSON and all four required fields were present and non-empty; a run that
\* fails validation ends without a handler having been invoked.
C3_NoHandlerUnlessValidated ==
  /\ (handlerLog # <<>> \/ vendorCalls # <<>> \/ pc \in Handlers \cup {"gemini_stream"})
       => (Validated /\ payload = doc)
  /\ (Exited /\ exitCode # 0) => (handlerLog = <<>> /\ vendorCalls = <<>>)

C3_Witness == Exited /\ handlerLog # <<>> /\ vendorCalls # <<>> /\ Validated

\* C4: for a parsed object with a required field missing or falsy, main prints
\* "Error: Missing required field: <f>" for the first such field in the order
\* provider, api_key, prompt, content, prints nothing else, and exits non-zero.
C4_FirstMissingFieldReported ==
  LET first == CHOOSE i \in 1..4 :
                 /\ Missing(doc.f[FieldOrder[i]])
                 /\ \A j \in 1..(i - 1) : ~Missing(doc.f[FieldOrder[j]])
  IN (Exited /\ StreamParses /\ doc.t = "obj" /\ ~Validated)
     => /\ stdout = << <<"Error: Missing required field: ", FieldOrder[first]>> >>
        /\ exitCode \notin {0, -1}

C4_Witness ==
  /\ Exited
  /\ ~Missing(doc.f["provider"])
  /\ Missing(doc.f["prompt"])
  /\ Missing(doc.f["content"])
  /\ stdout = << <<"Error: Missing required field: ", "prompt">> >>

\* C5: a handler never raises and returns a string: the not-installed message
\* when its library cannot be imported, "<Vendor> Error: <message>" for any
\* other exception; main prints that string and exits with code 0.
C5_HandlersReturnStrings ==
  LET h == handlerLog[1]
      notInstalled ==
        CASE h = "process_openai" -> <<"Error: OpenAI library not installed. Run: pip install openai">>
          [] h = "process_claude" -> <<"Error: Anthropic library not installed. Run: pip install anthropic">>
          [] h = "process_gemini" -> <<"Error: Google GenAI library not installed. Run: pip install google-genai">>
      prefix ==
        CASE h = "process_openai" -> "OpenAI Error: "
          [] h = "process_claude" -> "Claude Error: "
          [] h = "process_gemini" -> "Gemini Error: "
  IN handlerLog # <<>> =>
       /\ exc = NoExc /\ pc # "except"
       /\ (HandlerRan /\ vendor_out.kind = "no_lib") => result = notInstalled
       /\ (HandlerRan /\ vendor_out.kind \in {"client_error", "key_error", "call_error", "bad_response"})
            => result = <<prefix>> \o vendor_out.exc.msg
       /\ Exited => (stdout = <<result>> /\ exitCode = 0)

C5_Witness ==
  /\ Exited
  /\ handlerLog = <<"process_claude">>
  /\ vendor_out.kind = "no_lib"
  /\ exitCode = 0
  /\ stdout = << <<"Error: Anthropic library not installed. Run: pip install anthropic">> >>

\* C6: every run writes exactly one message to stdout: one fatal diagnostic
\* with a non-zero exit, or the one result string with exit code 0; the exit
\* raised after a diagnostic is not reported as a second line.
C6_ExactlyOneMessage ==
  /\ Len(stdout) <= 1
  /\ Exited => Len(stdout) = 1
  /\ (Exited /\ exitCode = 0) => stdout = <<result>>
  /\ (Exited /\ exitCode # 0) =>
       stdout[1][1] \in {"Error: No input data received", "Error: Invalid JSON input: ",
                         "Error: Missing required field: ", "Error: "}

C6_Witness == Exited /\ exc.type = "SystemExit" /\ exitCode = 1 /\ Len(stdout) = 1

\* C7 (as stated): for a validated request whose provider matches none of
\* openai, claude, gemini case-insensitively, main invokes no handler, exits 0
\* and prints "Error: Unknown AI provider: " followed by the provider as given.
C7_UnknownProviderEchoed ==
  LET p == doc.f["provider"] IN
  (Exited /\ Validated /\ p.t = "str" /\ ~IsOpenai(p.s) /\ ~IsClaude(p.s) /\ ~IsGemini(p.s))
  => /\ handlerLog = <<>>
     /\ exitCode = 0
     /\ stdout = << <<"Error: Unknown AI provider: ">> \o p.s >>

\* C7 (amended): for a validated request whose provider is a string matching
\* none of openai, claude, gemini case-insensitively, main invokes no handler,
\* exits 0 and prints "Error: Unknown AI provider: " followed by the provider
\* in lower case.
C7_UnknownProviderLowered ==
  LET p == doc.f["provider"] IN
  (Exited /\ Validated /\ p.t = "str" /\ ~IsOpenai(p.s) /\ ~IsClaude(p.s) /\ ~IsGemini(p.s))
  => /\ handlerLog = <<>>
     /\ vendorCalls = <<>>
     /\ exitCode = 0
     /\ stdout = << <<"Error: Unknown AI provider: ">> \o [i \in DOMAIN p.s |-> LowerChar(p.s[i])] >>

C7_Witness ==
  /\ Exited
  /\ doc.f["provider"] = StrV(<<"M","i","s","t","r","a","l">>)
  /\ stdout = << <<"Error: Unknown AI provider: ", "m","i","s","t","r","a","l">> >>

(* The texts of the chunks in order, chunks without text contributing nothing. *)
RECURSIVE ConcatTexts(_)
ConcatTexts(cs) ==
  IF cs = <<>> THEN <<>>
  ELSE (IF Head(cs).t = "str" THEN Head(cs).s ELSE <<>>) \o ConcatTexts(Tail(cs))

\* C8: process_gemini surfaces nothing while the stream is consumed; on success
\* the result is the in-order concatenation of all chunk texts, trimmed once at
\* the end; when the stream raises, the buffered text is dropped and only the
\* "Gemini Error: ..." string is returned.
C8_GeminiFullyBuffered ==
  /\ pc = "gemini_stream" => (stdout = <<>> /\ result = <<>>)
  /\ (HandlerRan /\ handlerLog[1] = "process_gemini" /\ vendor_out.kind = "ok")
       => result = Strip(ConcatTexts(chunks))
  /\ (HandlerRan /\ handlerLog[1] = "process_gemini" /\ vendor_out.kind = "call_error")
       => result = <<"Gemini Error: ">> \o vendor_out.exc.msg
  /\ (Exited /\ handlerLog = <<"process_gemini">>) => stdout = <<result>>

C8_Witness ==
  /\ Exited
  /\ vendor_out.kind = "ok"
  /\ chunks = <<StrV(<<" ", "b">>), None, StrV(<<"a", " ">>)>>
  /\ stdout = << <<"b", "a">> >>

\* C9: routing is case-insensitive and exclusive: for a validated request the
\* handler invoked is the one named by the provider in any casing, and no
\* other handler is invoked in the run.
C9_RoutingCaseInsensitive ==
  LET p == doc.f["provider"] IN
  /\ Len(handlerLog) <= 1
  /\ (Validated /\ p.t = "str" /\ pc \in Handlers \cup {"gemini_stream", "print", "exited"})
       => handlerLog = IF IsOpenai(p.s) THEN <<"process_openai">>
                       ELSE IF IsClaude(p.s) THEN <<"process_claude">>
                       ELSE IF IsGemini(p.s) THEN <<"process_gemini">>
                       ELSE <<>>

C9_Witness ==
  /\ Exited
  /\ doc.f["provider"] = StrV(<<"O","P","E","N","A","I">>)
  /\ handlerLog = <<"process_openai">>
  /\ vendorCalls # <<>>

\* C10: no error is retried: a run issues at most one vendor call, and after a
\* failed call it prints the error string and ends without another call.
C10_AtMostOneVendorCall ==
  /\ Len(vendorCalls) <= 1
  /\ (Exited /\ vendor_out.kind \in {"call_error", "bad_response"})
       => /\ Len(vendorCalls) = 1
          /\ vendorCalls[1].handler = handlerLog[1]
          /\ exitCode = 0
          /\ Len(stdout) = 1

C10_Witness ==
  /\ Exited
  /\ vendor_out.kind = "call_error"
  /\ handlerLog = <<"process_gemini">>
  /\ chunks # <<>>
  /\ Len(vendorCalls) = 1

====
